---- MODULE Spec2Model ----
(***************************************************************************)
(* Model of api/codeforces_api.py: the transport layer                     *)
(* (CodeforcesDataRetriever) and the facade layer (CodeforcesAPI).         *)
(*                                                                         *)
(* Python values are tagged records, one shape per Python type, so that    *)
(* isinstance checks, str(), ';'.join, subscripting and iteration can be   *)
(* modelled by what they do on each type.  A URL is the sequence of the    *)
(* pieces the code concatenates: the base, the method name, "?", and per   *)
(* parameter its key, "=", the pieces of its value, with "&" between       *)
(* parameters and ";" between the elements of a list.  Keyword arguments   *)
(* keep the order in which the facade method passes them.                  *)
(***************************************************************************)
EXTENDS Integers, Sequences, FiniteSets, TLC

VARIABLES
    language,   \* CodeforcesDataRetriever._language: "en" or "ru"
    phase,      \* position of the current invocation
    call,       \* the current invocation: its method and its arguments
    url,        \* the URL __generate_url produced in this invocation
    netCalls,   \* number of request.urlopen calls of this invocation
    response,   \* what urlopen delivered to this invocation
    data,       \* what get_data returned to the facade method
    outcome     \* how the invocation ended: a return value or an exception

vars == <<language, phase, call, url, netCalls, response, data, outcome>>

---------------------------------------------------------------------------
\* Bounds of the model.
MaxListLen == 2      \* longest enumerated list of handles / tags
MaxResultLen == 2    \* longest list in a server result

\* Constants of the program.
MaxHandles == 10000      \* contest_standings: len(handles) <= 10000
MaxRecentCount == 1000   \* problemset_recent_status: 0 < count <= 1000

---------------------------------------------------------------------------
\* Python values.
PyNone == [t |-> "NoneType"]
PyInt(n) == [t |-> "int", i |-> n]
PyBool(b) == [t |-> "bool", b |-> b]
PyStr(s) == [t |-> "str", s |-> s]
PyList(l) == [t |-> "list", l |-> l]
PyDict(keys, val) == [t |-> "dict", keys |-> keys, val |-> val]
Member(m) == [t |-> "CodeforcesLanguage", m |-> m]


\* How an evaluation ends.
Return(v) == [kind |-> "return", value |-> v]
Raise(exc, args) == [kind |-> "raise", exc |-> exc, args |-> args]
Pending == [kind |-> "pending"]

NoUrl == <<>>
NoCall == [method |-> "none"]
NoResponse == [got |-> "nothing"]
NoData == [t |-> "unset"]

\* isinstance(x, int): bool is a subclass of int.
isinstance_int(x) == x.t \in {"int", "bool"}
isinstance_str(x) == x.t = "str"
isinstance_list(x) == x.t = "list"
isinstance_bool(x) == x.t = "bool"

\* The integer an int or a bool compares as.
int_value(x) == IF x.t = "bool" THEN (IF x.b THEN 1 ELSE 0) ELSE x.i

\* str(value) for the types that reach __key_value_to_http_parameter.
str(value) ==
    CASE value.t = "str" -> value.s
      [] value.t = "int" -> ToString(value.i)
      [] value.t = "bool" -> (IF value.b THEN "True" ELSE "False")
      [] value.t = "NoneType" -> "None"

\* Faulty variant of join: "," as the separator.
join_with_comma(value) ==
    IF \E i \in 1..Len(value) : value[i].t # "str"
    THEN Raise("TypeError", <<PyStr("sequence item: expected str instance")>>)
    ELSE Return(IF Len(value) = 0 THEN <<>>
                ELSE [i \in 1..(2 * Len(value) - 1) |->
                        IF i % 2 = 1 THEN value[(i + 1) \div 2].s ELSE ","])

\* ';'.join(value): the elements in order with ";" between neighbours;
\* str.join raises TypeError on an element that is not a str.
join(value) ==
    IF \E i \in 1..Len(value) : value[i].t # "str"
    THEN Raise("TypeError", <<PyStr("sequence item: expected str instance")>>)
    ELSE Return(IF Len(value) = 0 THEN <<>>
                ELSE [i \in 1..(2 * Len(value) - 1) |->
                        IF i % 2 = 1 THEN value[(i + 1) \div 2].s ELSE ";"])

\* obj[key] on a parsed JSON value.
getitem(obj, key) ==
    IF obj.t = "dict"
    THEN IF \E i \in 1..Len(obj.keys) : obj.keys[i] = key
         THEN Return(obj.val[key])
         ELSE Raise("KeyError", <<PyStr(key)>>)
    ELSE Raise("TypeError", <<PyStr("indices must be integers / not subscriptable")>>)

---------------------------------------------------------------------------
\* CodeforcesDataRetriever

\* _base_from_language
base_from_language(lang) ==
    IF lang = "en" THEN "http://codeforces.com/api/" ELSE "http://codeforces.ru/api/"

\* property base
base == base_from_language(language)

\* CodeforcesLanguage(value): a member maps to itself, a str to the member
\* with that value, anything else raises ValueError.
CodeforcesLanguage(value) ==
    IF value.t = "CodeforcesLanguage" THEN Return(value.m)
    ELSE IF value.t = "str" /\ value.s \in {"en", "ru"} THEN Return(value.s)
    ELSE Raise("ValueError", <<PyStr("is not a valid CodeforcesLanguage")>>)

\* Faulty variant of language_setter: a str is stored without the conversion.
language_setter_unchecked(value) ==
    IF value.t \notin {"CodeforcesLanguage", "str"}
    THEN Raise("AssertionError", <<>>)
    ELSE IF value.t = "str" THEN Return(value.s)
    ELSE CodeforcesLanguage(value)

\* language.setter: the assert, then the conversion.
language_setter(value) ==
    IF value.t \notin {"CodeforcesLanguage", "str"}
    THEN Raise("AssertionError", <<>>)
    ELSE CodeforcesLanguage(value)

\* Faulty variant of get_valid_args: nothing is filtered out.
get_valid_args_unfiltered(kwargs) == kwargs

\* __get_valid_args: keeps the pairs whose value is not None, in order.
RECURSIVE get_valid_args(_)
get_valid_args(kwargs) ==
    IF Len(kwargs) = 0 THEN <<>>
    ELSE (IF Head(kwargs).v # PyNone THEN <<Head(kwargs)>> ELSE <<>>)
         \o get_valid_args(Tail(kwargs))

\* __key_value_to_http_parameter
key_value_to_http_parameter(key_value) ==
    IF isinstance_list(key_value.v)
    THEN LET j == join(key_value.v.l)
         IN  IF j.kind = "raise" THEN j
             ELSE Return(<<key_value.k, "=">> \o j.value)
    ELSE Return(<<key_value.k, "=", str(key_value.v)>>)

\* '&'.join(map(__key_value_to_http_parameter, args.items()))
RECURSIVE join_parameters(_)
join_parameters(args) ==
    IF Len(args) = 0 THEN Return(<<>>)
    ELSE LET p == key_value_to_http_parameter(Head(args))
             rest == join_parameters(Tail(args))
         IN  IF p.kind = "raise" THEN p
             ELSE IF rest.kind = "raise" THEN rest
             ELSE IF Len(args) = 1 THEN p
             ELSE Return(p.value \o <<"&">> \o rest.value)

\* __generate_url
generate_url(method, kwargs) ==
    IF Len(kwargs) = 0 THEN Return(<<base, method>>)
    ELSE LET q == join_parameters(get_valid_args(kwargs))
         IN  IF q.kind = "raise" THEN q
             ELSE Return(<<base, method, "?">> \o q.value)

\* Faulty variant of check_json: the whole envelope is returned, not its result.
check_json_returns_envelope(values) ==
    LET status == getitem(values, "status")
        result == getitem(values, "result")
        comment == getitem(values, "comment")
        missed(e) == IF e.exc = "KeyError"
                     THEN Raise("ValueError", <<PyStr("Missed required field"), e.args[1]>>)
                     ELSE e
    IN  IF status.kind = "raise" THEN missed(status)
        ELSE IF status.value = PyStr("OK")
        THEN IF result.kind = "raise" THEN missed(result) ELSE Return(values)
        ELSE IF comment.kind = "raise" THEN missed(comment)
        ELSE Raise("ValueError", <<comment.value>>)

\* Faulty variant of check_json: only the status "FAILED" is taken as a failure.
check_json_failed_only(values) ==
    LET status == getitem(values, "status")
        result == getitem(values, "result")
        comment == getitem(values, "comment")
        missed(e) == IF e.exc = "KeyError"
                     THEN Raise("ValueError", <<PyStr("Missed required field"), e.args[1]>>)
                     ELSE e
    IN  IF status.kind = "raise" THEN missed(status)
        ELSE IF status.value # PyStr("FAILED")
        THEN IF result.kind = "raise" THEN missed(result) ELSE result
        ELSE IF comment.kind = "raise" THEN missed(comment)
        ELSE Raise("ValueError", <<comment.value>>)

\* Faulty variant of check_json: the KeyError is not caught.
check_json_uncaught(values) ==
    LET status == getitem(values, "status")
        result == getitem(values, "result")
        comment == getitem(values, "comment")
    IN  IF status.kind = "raise" THEN status
        ELSE IF status.value = PyStr("OK")
        THEN result
        ELSE IF comment.kind = "raise" THEN comment
        ELSE Raise("ValueError", <<comment.value>>)

\* __check_json, after json.loads produced `values`.
check_json(values) ==
    LET status == getitem(values, "status")
        result == getitem(values, "result")
        comment == getitem(values, "comment")
        missed(e) == IF e.exc = "KeyError"
                     THEN Raise("ValueError", <<PyStr("Missed required field"), e.args[1]>>)
                     ELSE e
    IN  IF status.kind = "raise" THEN missed(status)
        ELSE IF status.value = PyStr("OK")
        THEN IF result.kind = "raise" THEN missed(result) ELSE result
        ELSE IF comment.kind = "raise" THEN missed(comment)
        ELSE Raise("ValueError", <<comment.value>>)

---------------------------------------------------------------------------
\* CodeforcesAPI: the typed records built from the result.

\* Problem(x), Contest(x), ...: the record of class cls built from x.
construct(cls, x) == [t |-> cls, src |-> x]

\* list(map(cls, data)): one record per element of a list, in order;
\* iterating a dict yields its keys; None and numbers are not iterable.
list_map(cls, data_) ==
    CASE data_.t = "list" ->
           Return(PyList([i \in 1..Len(data_.l) |-> construct(cls, data_.l[i])]))
      [] data_.t = "dict" ->
           Return(PyList([i \in 1..Len(data_.keys) |->
                            construct(cls, PyStr(data_.keys[i]))]))
      [] OTHER -> Raise("TypeError", <<PyStr("object is not iterable")>>)

\* list(map(cls, data[key]))
list_map_item(cls, data_, key) ==
    LET x == getitem(data_, key)
    IN  IF x.kind = "raise" THEN x ELSE list_map(cls, x.value)

\* The return statement of contest_standings.
contest_standings_result(data_) ==
    LET c == list_map_item("Contest", data_, "contest")
        p == list_map_item("Problem", data_, "problems")
        r == list_map_item("RanklistRow", data_, "rows")
    IN  IF c.kind = "raise" THEN c
        ELSE IF p.kind = "raise" THEN p
        ELSE IF r.kind = "raise" THEN r
        ELSE Return(PyDict(<<"contest", "problems", "rows">>,
                           [contest |-> c.value, problems |-> p.value, rows |-> r.value]))

\* The return statement of problemset_problems.
problemset_problems_result(data_) ==
    LET p == list_map_item("Problem", data_, "problems")
        s == list_map_item("ProblemStatistics", data_, "problemStatistics")
    IN  IF p.kind = "raise" THEN p
        ELSE IF s.kind = "raise" THEN s
        ELSE Return(PyDict(<<"problems", "problemStatistics">>,
                           [problems |-> p.value, problemStatistics |-> s.value]))

\* The mapping step of each facade method.
mapping(method, data_) ==
    CASE method = "contest.hacks" -> list_map("Hack", data_)
      [] method = "contest.list" -> list_map("Contest", data_)
      [] method = "contest.standings" -> contest_standings_result(data_)
      [] method = "contest.status" -> list_map("Submission", data_)
      [] method = "problemset.problems" -> problemset_problems_result(data_)
      [] method = "problemset.recentStatus" -> list_map("Submission", data_)
      [] method = "user.info" -> list_map("User", data_)
      [] method = "user.ratedList" -> list_map("User", data_)
      [] method = "user.rating" -> list_map("RatingChange", data_)
      [] method = "user.status" -> list_map("Submission", data_)

---------------------------------------------------------------------------
\* CodeforcesAPI: argument validation, the asserts of each method in order.

Passed == Return(PyNone)
AssertionError == Raise("AssertionError", <<>>)

\* Faulty variant of check_handles_len: < in place of <=.
check_handles_len_strict(handles) ==
    IF handles.t = "NoneType"
    THEN Raise("TypeError", <<PyStr("object of type 'NoneType' has no len()")>>)
    ELSE IF Len(handles.l) < MaxHandles THEN Passed ELSE AssertionError

\* len(handles) <= 10000; len(None) raises TypeError.
check_handles_len(handles) ==
    IF handles.t = "NoneType"
    THEN Raise("TypeError", <<PyStr("object of type 'NoneType' has no len()")>>)
    ELSE IF Len(handles.l) <= MaxHandles THEN Passed ELSE AssertionError

contest_hacks_validate(contest_id) ==
    IF isinstance_int(contest_id) THEN Passed ELSE AssertionError

contest_standings_validate(contest_id, from_, count, handles) ==
    IF ~isinstance_int(contest_id) THEN AssertionError
    ELSE IF ~isinstance_int(from_) THEN AssertionError
    ELSE IF ~(isinstance_int(count) \/ count = PyNone) THEN AssertionError
    ELSE IF ~(isinstance_list(handles) \/ handles = PyNone) THEN AssertionError
    ELSE check_handles_len(handles)

contest_status_validate(contest_id, handle, from_, count) ==
    IF ~isinstance_int(contest_id) THEN AssertionError
    ELSE IF ~(isinstance_str(handle) \/ handle = PyNone) THEN AssertionError
    ELSE IF ~isinstance_int(from_) THEN AssertionError
    ELSE IF ~(isinstance_int(count) \/ count = PyNone) THEN AssertionError
    ELSE Passed

problemset_recent_status_validate(count) ==
    IF ~isinstance_int(count) THEN AssertionError
    ELSE IF ~(0 < int_value(count) /\ int_value(count) <= MaxRecentCount)
    THEN AssertionError
    ELSE Passed

user_info_validate(handles) ==
    IF isinstance_list(handles) THEN Passed ELSE AssertionError

user_rated_list_validate(active_only) ==
    IF isinstance_bool(active_only) THEN Passed ELSE AssertionError

user_rating_validate(handle) ==
    IF isinstance_str(handle) THEN Passed ELSE AssertionError

user_status_validate(handle, from_, count) ==
    IF ~isinstance_str(handle) THEN AssertionError
    ELSE IF ~isinstance_int(from_) THEN AssertionError
    ELSE IF ~(isinstance_int(count) \/ count = PyNone) THEN AssertionError
    ELSE Passed

\* One keyword argument of a get_data call.
kw(k, v) == [v |-> v, k |-> k]

---------------------------------------------------------------------------
\* Arguments the callers pass.

Handles == {"tourist", "Petr"}

\* Every list of handles (or tags) of length at most MaxListLen.
SmallLists ==
    {PyList(l) : l \in UNION {[1..n -> {PyStr(h) : h \in Handles}] : n \in 0..MaxListLen}}

\* A list of n handles.
BigList(n) == PyList([i \in 1..n |-> PyStr("tourist")])

ListArgs ==
    SmallLists \cup {PyNone, BigList(MaxHandles), BigList(MaxHandles + 1),
                     PyList(<<PyInt(1)>>), PyStr("tourist")}
ContestIdArgs == {PyInt(374), PyStr("374")}
FromArgs == {PyInt(1), PyInt(10), PyNone}
CountArgs == {PyNone, PyInt(5), PyStr("5")}
HandleArgs == {PyStr("tourist"), PyNone, PyInt(1)}
FlagArgs == {PyBool(TRUE), PyBool(FALSE), PyNone}
RecentCountArgs ==
    {PyInt(0), PyInt(1), PyInt(MaxRecentCount), PyInt(MaxRecentCount + 1),
     PyBool(TRUE), PyBool(FALSE), PyStr("5"), PyNone}
LanguageArgs ==
    {Member("en"), Member("ru"), PyStr("en"), PyStr("ru"), PyStr("de"), PyInt(0), PyNone}

---------------------------------------------------------------------------
\* What the server answers.

Obj1 == PyDict(<<"id", "name">>, [id |-> PyInt(374), name |-> PyStr("Round")])
Obj2 == PyDict(<<"id">>, [id |-> PyInt(1)])

\* Every list of JSON objects of length at most MaxResultLen.
ObjLists ==
    {PyList(l) : l \in UNION {[1..n -> {Obj1, Obj2}] : n \in 0..MaxResultLen}}

StandingsResults ==
    {PyDict(<<"contest", "problems", "rows">>, [contest |-> Obj1, problems |-> p, rows |-> r]) :
        p \in ObjLists, r \in ObjLists}
    \cup {PyDict(<<"contest", "problems">>, [contest |-> Obj1, problems |-> PyList(<<>>)])}

ProblemsetResults ==
    {PyDict(<<"problems", "problemStatistics">>, [problems |-> p, problemStatistics |-> p]) :
        p \in ObjLists}

Results ==
    {PyNone, PyInt(0), PyDict(<<>>, <<>>)} \cup ObjLists \cup StandingsResults
    \cup ProblemsetResults

NotOkStatuses == {PyStr("FAILED"), PyStr("ok"), PyNone}
Comments == {PyStr("contestId: Contest with id 0 not found"), PyStr(""), PyNone}

\* The values json.loads can produce from the body.
Envelopes ==
    {PyDict(<<"status", "result">>, [status |-> PyStr("OK"), result |-> x]) : x \in Results}
    \cup {PyDict(<<"status", "comment", "result">>,
                 [status |-> PyStr("OK"), result |-> PyList(<<>>), comment |-> c]) :
            c \in Comments}
    \cup {PyDict(<<"status">>, [status |-> PyStr("OK")])}
    \cup {PyDict(<<"status", "comment">>, [status |-> PyStr("OK"), comment |-> c]) :
            c \in Comments}
    \cup {PyDict(<<"status", "comment">>, [status |-> st, comment |-> c]) :
            st \in NotOkStatuses, c \in Comments}
    \cup {PyDict(<<"status", "comment", "result">>,
                 [status |-> st, result |-> PyList(<<>>), comment |-> c]) :
            st \in NotOkStatuses, c \in Comments}
    \cup {PyDict(<<"status">>, [status |-> st]) : st \in NotOkStatuses}
    \cup {PyDict(<<"status", "result">>, [status |-> st, result |-> PyList(<<>>)]) :
            st \in NotOkStatuses}
    \cup {PyDict(<<>>, <<>>),
          PyDict(<<"result">>, [result |-> PyList(<<>>)]),
          PyDict(<<"comment">>, [comment |-> PyStr("")]),
          PyDict(<<"comment", "result">>, [result |-> PyNone, comment |-> PyStr("")])}
    \cup {PyList(<<>>), PyNone}

Bodies ==
    {[got |-> "json", values |-> v] : v \in Envelopes} \cup {[got |-> "not json"]}

---------------------------------------------------------------------------
\* The state machine.

\* CodeforcesAPI.__init__ / CodeforcesDataRetriever.__init__
Init ==
    /\ language \in {"en", "ru"}
    /\ phase = "idle"
    /\ call = NoCall
    /\ url = NoUrl
    /\ netCalls = 0
    /\ response = NoResponse
    /\ data = NoData
    /\ outcome = Pending

\* A facade method up to the moment request.urlopen blocks: the asserts,
\* then get_data -> __generate_url -> __get_data -> urlopen.
invoke(method, args, validated, kwargs) ==
    /\ phase = "idle"
    /\ LET u == IF validated.kind = "raise" THEN validated
                ELSE generate_url(method, kwargs)
       IN  /\ call' = [args |-> args, method |-> method]
           /\ IF u.kind = "raise"
              THEN /\ phase' = "raised"
                   /\ url' = NoUrl
                   /\ netCalls' = 0
                   /\ outcome' = u
              ELSE /\ phase' = "awaiting"
                   /\ url' = u.value
                   /\ netCalls' = 1
                   /\ outcome' = Pending
    /\ response' = NoResponse
    /\ data' = NoData
    /\ UNCHANGED language

contest_hacks ==
    \E contest_id \in ContestIdArgs :
        invoke("contest.hacks", [contest_id |-> contest_id],
               contest_hacks_validate(contest_id),
               <<kw("contestId", contest_id)>>)

contest_list ==
    \E gym \in FlagArgs :
        invoke("contest.list", [gym |-> gym], Passed, <<kw("gym", gym)>>)

contest_standings ==
    \E contest_id \in ContestIdArgs, from_ \in FromArgs, count \in CountArgs,
       handles \in ListArgs :
        invoke("contest.standings",
               [handles |-> handles, contest_id |-> contest_id, from_ |-> from_,
                count |-> count],
               contest_standings_validate(contest_id, from_, count, handles),
               <<kw("contestId", contest_id), kw("count", count),
                 kw("handles", handles), kw("from", from_)>>)

contest_status ==
    \E contest_id \in ContestIdArgs, handle \in HandleArgs, from_ \in FromArgs,
       count \in CountArgs :
        invoke("contest.status",
               [contest_id |-> contest_id, from_ |-> from_, count |-> count,
                handle |-> handle],
               contest_status_validate(contest_id, handle, from_, count),
               <<kw("contestId", contest_id), kw("handle", handle),
                 kw("count", count), kw("from", from_)>>)

problemset_problems ==
    \E tags \in ListArgs :
        invoke("problemset.problems", [tags |-> tags], Passed, <<kw("tags", tags)>>)

problemset_recent_status ==
    \E count \in RecentCountArgs :
        invoke("problemset.recentStatus", [count |-> count],
               problemset_recent_status_validate(count),
               <<kw("count", count)>>)

user_info ==
    \E handles \in ListArgs :
        invoke("user.info", [handles |-> handles], user_info_validate(handles),
               <<kw("handles", handles)>>)

user_rated_list ==
    \E active_only \in FlagArgs :
        invoke("user.ratedList", [active_only |-> active_only],
               user_rated_list_validate(active_only),
               <<kw("activeOnly", active_only)>>)

user_rating ==
    \E handle \in HandleArgs :
        invoke("user.rating", [handle |-> handle], user_rating_validate(handle),
               <<kw("handle", handle)>>)

user_status ==
    \E handle \in HandleArgs, from_ \in FromArgs, count \in CountArgs :
        invoke("user.status", [from_ |-> from_, count |-> count, handle |-> handle],
               user_status_validate(handle, from_, count),
               <<kw("handle", handle), kw("count", count), kw("from", from_)>>)

\* urlopen returns a body: __get_data decodes it, json.loads parses it,
\* __check_json checks it, and the facade method maps the result.
receive ==
    /\ phase = "awaiting"
    /\ \E body \in Bodies :
        LET r == IF body.got = "not json"
                 THEN Raise("ValueError", <<PyStr("Expecting value")>>)
                 ELSE check_json(body.values)
            o == IF r.kind = "raise" THEN r ELSE mapping(call.method, r.value)
        IN  /\ response' = body
            /\ data' = IF r.kind = "raise" THEN NoData ELSE r.value
            /\ outcome' = o
            /\ phase' = IF o.kind = "raise" THEN "raised" ELSE "returned"
    /\ UNCHANGED <<language, call, url, netCalls>>

\* urlopen raises: the error propagates unchanged through every frame.
urlopen_fails ==
    /\ phase = "awaiting"
    /\ response' = [got |-> "error"]
    /\ outcome' = Raise("URLError", <<PyStr("urlopen error")>>)
    /\ phase' = "raised"
    /\ UNCHANGED <<language, call, url, netCalls, data>>

\* retriever.language = value
set_language ==
    /\ phase = "idle"
    /\ \E value \in LanguageArgs :
        LET r == language_setter(value)
        IN  /\ call' = [args |-> [value |-> value], method |-> "language.setter"]
            /\ language' = IF r.kind = "raise" THEN language ELSE r.value
            /\ outcome' = IF r.kind = "raise" THEN r ELSE Return(PyNone)
            /\ phase' = IF r.kind = "raise" THEN "raised" ELSE "returned"
    /\ url' = NoUrl
    /\ netCalls' = 0
    /\ response' = NoResponse
    /\ data' = NoData

\* The caller takes the result or the exception; the invocation's locals go.
finish ==
    /\ phase \in {"returned", "raised"}
    /\ phase' = "idle"
    /\ call' = NoCall
    /\ url' = NoUrl
    /\ netCalls' = 0
    /\ response' = NoResponse
    /\ data' = NoData
    /\ outcome' = Pending
    /\ UNCHANGED language

Next ==
    \/ contest_hacks
    \/ contest_list
    \/ contest_standings
    \/ contest_status
    \/ problemset_problems
    \/ problemset_recent_status
    \/ user_info
    \/ user_rated_list
    \/ user_rating
    \/ user_status
    \/ receive
    \/ urlopen_fails
    \/ set_language
    \/ finish

Spec == Init /\ [][Next]_vars

---------------------------------------------------------------------------
\* Reading a URL back: the query string starts after "?", parameters are
\* separated by "&", and a key is the piece before "=".

IsKeyPos(u, i) == i >= 4 /\ i < Len(u) /\ u[i + 1] = "=" /\ (i = 4 \/ u[i - 1] = "&")

QueryKeyPositions(u) == {i \in 4..(Len(u) - 1) : IsKeyPos(u, i)}

KeyCount(u, k) == Cardinality({i \in QueryKeyPositions(u) : u[i] = k})

\* The pieces of the value of key k: from after its "=" to the next "&".
ValueOf(u, k) ==
    LET p == CHOOSE i \in QueryKeyPositions(u) : u[i] = k
        later == {j \in QueryKeyPositions(u) : j > p}
        stop == IF later = {} THEN Len(u) + 1
                ELSE (CHOOSE j \in later : \A m \in later : j <= m) - 1
    IN  SubSeq(u, p + 2, stop - 1)

ParamNames ==
    {"contestId", "count", "handles", "from", "handle", "gym", "tags", "activeOnly"}

\* The facade argument passed under the HTTP parameter name k.
ArgName(k) ==
    CASE k = "contestId" -> "contest_id"
      [] k = "from" -> "from_"
      [] k = "activeOnly" -> "active_only"
      [] OTHER -> k

IsParam(k) == ArgName(k) \in DOMAIN call.args
Supplied(k) == IsParam(k) /\ call.args[ArgName(k)] # PyNone

HasKey(obj, k) == \E i \in 1..Len(obj.keys) : obj.keys[i] = k

\* The response parsed to a JSON object.
GotObject == response.got = "json" /\ response.values.t = "dict"

Answered == phase \in {"returned", "raised"}

\* __generate_url has just produced the URL and urlopen is called with it.
Generated == phase = "awaiting" /\ url # NoUrl

---------------------------------------------------------------------------
\* C1: in every generated URL, a parameter whose argument is None (or is
\* no parameter of the method) is not a key of the query string, every
\* parameter whose argument is not None is a key exactly once, and the
\* query string has no other keys.
C1_OmittedParametersAbsent ==
    Generated =>
        /\ \A k \in ParamNames : KeyCount(url, k) = (IF Supplied(k) THEN 1 ELSE 0)
        /\ Cardinality(QueryKeyPositions(url)) =
               Cardinality({k \in ParamNames : Supplied(k)})

\* contest_status with handle and count omitted got its URL.
C1_Witness ==
    /\ Generated
    /\ call.method = "contest.status"
    /\ call.args.handle = PyNone
    /\ call.args.count = PyNone
    /\ KeyCount(url, "contestId") = 1

\* C2: in every generated URL, a list argument of n elements is emitted as
\* its elements in order with ";" between neighbours and nowhere else
\* (2n-1 pieces, n-1 separators; nothing for the empty list), and any
\* other argument as the single piece that is its string form.
C2_ListsJoinedBySemicolon ==
    Generated =>
        \A k \in {x \in ParamNames : Supplied(x)} :
            /\ KeyCount(url, k) = 1
            /\ LET v == call.args[ArgName(k)]
                   seg == ValueOf(url, k)
               IN  CASE v.t = "list" ->
                          LET n == Len(v.l)
                          IN  /\ Len(seg) = (IF n = 0 THEN 0 ELSE 2 * n - 1)
                              /\ \A i \in 1..n : seg[2 * i - 1] = v.l[i].s
                              /\ \A i \in 1..(n - 1) : seg[2 * i] = ";"
                              /\ Cardinality({i \in 1..Len(seg) : seg[i] = ";"}) =
                                     (IF n = 0 THEN 0 ELSE n - 1)
                     [] v.t = "str" -> seg = <<v.s>>
                     [] v.t = "int" -> seg = <<ToString(v.i)>>
                     [] v.t = "bool" -> seg = <<IF v.b THEN "True" ELSE "False">>

\* contest_standings with two handles and a count got its URL.
C2_Witness ==
    /\ Generated
    /\ call.method = "contest.standings"
    /\ call.args.handles = PyList(<<PyStr("Petr"), PyStr("tourist")>>)
    /\ call.args.count = PyInt(5)
    /\ ValueOf(url, "handles") = <<"Petr", ";", "tourist">>

\* C3: when the body parses to an object with status "OK" and a result X,
\* the transport returns exactly X to the facade method.
C3_OkResultPassedThrough ==
    (/\ Answered
     /\ GotObject
     /\ HasKey(response.values, "status")
     /\ response.values.val.status = PyStr("OK")
     /\ HasKey(response.values, "result"))
        => data = response.values.val.result

\* An OK response whose result is null was passed through as None.
C3_Witness ==
    /\ Answered
    /\ GotObject
    /\ HasKey(response.values, "status")
    /\ response.values.val.status = PyStr("OK")
    /\ HasKey(response.values, "result")
    /\ response.values.val.result = PyNone
    /\ data = PyNone

\* C4: when the body parses to an object whose status is present and not
\* "OK" and whose comment is c, the invocation ends with ValueError(c) and
\* the transport returns nothing.
C4_NotOkRaisesComment ==
    (/\ Answered
     /\ GotObject
     /\ HasKey(response.values, "status")
     /\ response.values.val.status # PyStr("OK")
     /\ HasKey(response.values, "comment"))
        => /\ phase = "raised"
           /\ outcome = Raise("ValueError", <<response.values.val.comment>>)
           /\ data = NoData

\* A status other than "FAILED" and "OK", with a comment, raised it.
C4_Witness ==
    /\ phase = "raised"
    /\ GotObject
    /\ HasKey(response.values, "status")
    /\ response.values.val.status = PyStr("ok")
    /\ HasKey(response.values, "comment")
    /\ outcome = Raise("ValueError", <<PyStr("contestId: Contest with id 0 not found")>>)

\* The field of the envelope whose absence the code meets first.
MissingField(values) ==
    IF ~HasKey(values, "status") THEN "status"
    ELSE IF values.val.status = PyStr("OK")
    THEN (IF HasKey(values, "result") THEN "none" ELSE "result")
    ELSE (IF HasKey(values, "comment") THEN "none" ELSE "comment")

\* C5: an object missing status, a not-OK object missing comment, or an OK
\* object missing result ends the invocation with the error
\* ValueError('Missed required field', <that field>), which no
\* remote-reported error ValueError(<comment>) equals.
C5_MissingFieldNamed ==
    (Answered /\ GotObject /\ MissingField(response.values) # "none")
        => /\ phase = "raised"
           /\ outcome = Raise("ValueError", <<PyStr("Missed required field"),
                                             PyStr(MissingField(response.values))>>)
           /\ data = NoData
           /\ \A c \in Comments \cup {PyStr("Missed required field")} :
                  outcome # Raise("ValueError", <<c>>)

\* An OK response without result raised the error naming result.
C5_Witness ==
    /\ phase = "raised"
    /\ GotObject
    /\ HasKey(response.values, "status")
    /\ response.values.val.status = PyStr("OK")
    /\ ~HasKey(response.values, "result")
    /\ outcome.args = <<PyStr("Missed required field"), PyStr("result")>>

InStandings == call.method = "contest.standings"

\* C6: contest_standings with an int contest_id and a list of more than
\* 10000 handles ends in AssertionError with no urlopen call; with at most
\* 10000 handles (other arguments valid) no AssertionError is raised.
C6_TooManyHandlesRejectedLocally ==
    (/\ InStandings
     /\ isinstance_int(call.args.contest_id)
     /\ call.args.handles.t = "list")
        => IF Len(call.args.handles.l) > 10000
           THEN /\ phase = "raised"
                /\ outcome = Raise("AssertionError", <<>>)
                /\ netCalls = 0
                /\ url = NoUrl
           ELSE (isinstance_int(call.args.from_)
                 /\ call.args.count.t \in {"int", "bool", "NoneType"})
                    => ~(outcome.kind = "raise" /\ outcome.exc = "AssertionError")

\* contest_standings(374, handles=<10001 handles>) was rejected.
C6_Witness ==
    /\ InStandings
    /\ call.args.contest_id = PyInt(374)
    /\ call.args.handles.t = "list"
    /\ Len(call.args.handles.l) = 10001
    /\ phase = "raised"
    /\ netCalls = 0

\* C7: contest_standings with handles None and otherwise valid arguments
\* passes validation, performs the request, and its query string has no
\* handles parameter.
C7_NoneHandlesOmitted ==
    (/\ InStandings
     /\ call.args.handles = PyNone
     /\ isinstance_int(call.args.contest_id)
     /\ isinstance_int(call.args.from_)
     /\ call.args.count.t \in {"int", "bool", "NoneType"})
        => /\ netCalls = 1
           /\ url # NoUrl
           /\ KeyCount(url, "handles") = 0

\* C8: user_info with a list of more than 10000 handles is rejected by
\* validation before any urlopen call.
C8_UserInfoTooManyHandlesRejected ==
    (/\ call.method = "user.info"
     /\ call.args.handles.t = "list"
     /\ Len(call.args.handles.l) > 10000)
        => /\ phase = "raised"
           /\ outcome = Raise("AssertionError", <<>>)
           /\ netCalls = 0

\* C9: the stored language is always en or ru, a language set that raises
\* leaves it unchanged, and every generated URL starts with
\* http://codeforces.com/api/ under en and http://codeforces.ru/api/ under
\* ru, followed by the method name.
C9_LanguageSelectsBase ==
    /\ [](/\ language \in {"en", "ru"}
          /\ url # NoUrl =>
                /\ language = "en" => url[1] = "http://codeforces.com/api/"
                /\ language = "ru" => url[1] = "http://codeforces.ru/api/"
                /\ url[2] = call.method)
    /\ [][(call'.method = "language.setter" /\ outcome'.kind = "raise")
             => language' = language]_vars
    /\ [][(call'.method = "language.setter" /\ outcome'.kind = "return")
             => language' = (IF call'.args.value.t = "str" THEN call'.args.value.s
                             ELSE call'.args.value.m)]_vars

\* A set to 'de' raised ValueError and the language is still ru.
C9_Witness ==
    /\ call.method = "language.setter"
    /\ call.args.value = PyStr("de")
    /\ outcome.kind = "raise"
    /\ outcome.exc = "ValueError"
    /\ language = "ru"

\* C10: a successful contest_standings returns exactly the keys contest,
\* problems and rows: contest the one Contest record built from the
\* result's contest object, problems and rows one record per element of
\* the result's lists, in order.
C10_StandingsMapping ==
    (InStandings /\ phase = "returned")
        => outcome.value =
             PyDict(<<"contest", "problems", "rows">>,
                    [contest |-> construct("Contest", data.val.contest),
                     problems |->
                        PyList([i \in 1..Len(data.val.problems.l) |->
                                  construct("Problem", data.val.problems.l[i])]),
                     rows |->
                        PyList([i \in 1..Len(data.val.rows.l) |->
                                  construct("RanklistRow", data.val.rows.l[i])])])

=============================================================================
